---- MODULE Spec2Model ----
(***************************************************************************)
(* A model of terminalTools.py: the CsvManager record store (addTopRow,   *)
(* addEntry, searchRows) over one delimited text file, and the Logger that *)
(* prints coloured lines and prepends them to a store.                     *)
(*                                                                         *)
(* Text is modelled as a sequence of one-character strings, a file as its *)
(* existence flag and its content, a row as a sequence of items, and an   *)
(* item as a tagged value (a string or an integer) that str() renders.    *)
(***************************************************************************)
EXTENDS Integers, Sequences, FiniteSets, TLC

VARIABLES
    constructed,  \* CsvManager.__init__ has run
    exists,       \* self.filepath.exists()
    content,      \* the bytes of the file (all characters are ASCII)
    call,         \* the last call made: its name and its arguments
    raised,       \* the last call raised an exception to its caller
    diags,        \* the reports the last call made through _saveError
    results,      \* the value the last searchRows call returned
    pre,          \* history: the file as it was when the last call started
    base,         \* history: the content right after construction
    tops,         \* history: the rows addTopRow has written, in call order
    ends,         \* history: the rows addEntry has written, in call order
    clean,        \* history: no call has failed and nobody else touched the file
    nOps,         \* number of calls made so far
    pending,      \* the arguments of the searchRows call about to be made, or None
    logger,       \* the Logger object: _doc, _debug_enabled, _disposed
    console,      \* the lines the last Logger call wrote to standard output
    now,          \* the clock FechaHora reads
    callers       \* the concurrent callers of addTopRow: where each one is

\* the variables of the Logger
logvars == <<logger, console, now>>

vars == <<constructed, exists, content, call, raised, diags, results,
          pre, base, tops, ends, clean, nOps, pending, logger, console, now,
          callers>>

----------------------------------------------------------------------------
(* Bounds of the model. *)

\* at most this many addTopRow/addEntry calls (and external deletions) per run
MaxOps == 3
\* the files searchRows is run on hold at most this many lines
MaxLines == 2
\* at most this many log calls (newLog ... debug) per run of the Logger
MaxLogs == 2

----------------------------------------------------------------------------
(* Characters and text. *)

LF == "\n"
CR == "\r"
COMMA == ","
QUOTE == "\""
SPACE == " "

\* Optional[T]: None, or a value
None == <<>>
Some(v) == <<v>>
IsNone(o) == o = <<>>
Get(o) == o[1]

RECURSIVE Concat(_)
\* "".join(parts)
Concat(parts) ==
    IF parts = <<>> THEN <<>> ELSE Head(parts) \o Concat(Tail(parts))

RECURSIVE Join(_, _)
\* sep.join(parts)
Join(parts, sep) ==
    IF parts = <<>> THEN <<>>
    ELSE IF Len(parts) = 1 THEN parts[1]
    ELSE parts[1] \o sep \o Join(Tail(parts), sep)

Reverse(s) == [i \in 1..Len(s) |-> s[Len(s) + 1 - i]]

\* number of positions of text that hold character c
Count(text, c) == Cardinality({i \in 1..Len(text) : text[i] = c})

----------------------------------------------------------------------------
(* Items and rows: Tuple[Any, ...], each item rendered with str(). *)

StrItem(s) == [kind |-> "str", s |-> s, n |-> 0]
IntItem(n) == [kind |-> "int", s |-> <<>>, n |-> n]

DigitChar(d) ==
    CASE d = 0 -> "0" [] d = 1 -> "1" [] d = 2 -> "2" [] d = 3 -> "3"
      [] d = 4 -> "4" [] d = 5 -> "5" [] d = 6 -> "6" [] d = 7 -> "7"
      [] d = 8 -> "8" [] d = 9 -> "9"

RECURSIVE Decimal(_)
\* str(n) for a natural number n
Decimal(n) ==
    IF n < 10 THEN <<DigitChar(n)>>
    ELSE Decimal(n \div 10) \o <<DigitChar(n % 10)>>

\* str(item)
Str(item) == IF item.kind = "int" THEN Decimal(item.n) ELSE item.s

\* [str(item) for item in row]
Strs(row) == [i \in 1..Len(row) |-> Str(row[i])]

MutRowLineNoNewline(row) == Join(Strs(row), <<COMMA>>) \o <<COMMA>>
\* row_line = ",".join(str(item) for item in row) + ",\n"
RowLine(row) == Join(Strs(row), <<COMMA>>) \o <<COMMA, LF>>

----------------------------------------------------------------------------
(* Text-mode file access (Path.read_text / Path.write_text). *)

RECURSIVE ReadText(_)
\* Path.read_text(): universal newlines, "\r\n" and "\r" are read as "\n"
ReadText(bytes) ==
    IF bytes = <<>> THEN <<>>
    ELSE IF Head(bytes) = CR
         THEN IF Len(bytes) >= 2 /\ bytes[2] = LF
              THEN <<LF>> \o ReadText(Tail(Tail(bytes)))
              ELSE <<LF>> \o ReadText(Tail(bytes))
         ELSE <<Head(bytes)>> \o ReadText(Tail(bytes))

\* os.linesep of the platform the program runs on (POSIX)
LineSep == <<LF>>

RECURSIVE WriteText(_)
\* Path.write_text(): "\n" is written as os.linesep
WriteText(text) ==
    IF text = <<>> THEN <<>>
    ELSE (IF Head(text) = LF THEN LineSep ELSE <<Head(text)>>)
         \o WriteText(Tail(text))

----------------------------------------------------------------------------
(* Inputs. *)

\* the rows the callers pass
Rows ==
    { <<>>,
      <<StrItem(<<"a">>), StrItem(<<"b">>)>>,
      <<StrItem(<<"c">>), IntItem(42)>>,
      <<StrItem(<<"x">>), StrItem(<<>>)>>,
      <<StrItem(<<"a", COMMA, "b">>)>>,
      <<StrItem(<<"a", LF, "b">>)>>,
      <<StrItem(<<"a", CR>>)>> }

\* what a file found at construction may hold
InitialContents ==
    { <<>>,
      <<"a", COMMA, "b">>,
      <<"x", COMMA, LF>>,
      <<"h", COMMA, CR, LF>> }

\* how the I/O of one call goes: "none" is success, the others name the
\* step that fails with an OSError
Faults == {"none", "read", "open", "write"}

----------------------------------------------------------------------------
(* The state before construction, and CsvManager.__init__. *)

File(e, c) == [exists |-> e, content |-> c]

\* no Logger has been made yet
NoLogger == [made |-> FALSE]
\* the store has a single caller
NoCallers == <<>>

Init ==
    /\ constructed = FALSE
    /\ exists \in BOOLEAN
    /\ content \in (IF exists THEN InitialContents ELSE {<<>>})
    /\ call = [op |-> "none"]
    /\ raised = FALSE
    /\ diags = <<>>
    /\ results = <<>>
    /\ pre = File(exists, content)
    /\ base = content
    /\ tops = <<>>
    /\ ends = <<>>
    /\ clean = TRUE
    /\ nOps = 0
    /\ pending = None
    /\ logger = NoLogger
    /\ console = <<>>
    /\ now = 0
    /\ callers = NoCallers

MutTouchedTruncates(f) == <<>>
\* the content after "if not self.filepath.exists(): self.filepath.touch()"
Touched(f) == IF f.exists THEN f.content ELSE <<>>

\* CsvManager("name"): touch() the file when it is not there; fault "open"
\* is touch() raising an OSError (a missing or read-only directory)
Construct(fault) ==
    /\ ~constructed
    /\ fault = "open" => ~exists
    /\ constructed' = (fault = "none")
    /\ exists' = (exists \/ fault = "none")
    /\ content' = Touched(File(exists, content))
    /\ base' = content'
    /\ call' = [op |-> "init", fault |-> fault]
    /\ pre' = File(exists, content)
    /\ raised' = (fault # "none")
    /\ diags' = <<>>
    /\ results' = <<>>
    /\ UNCHANGED <<tops, ends, clean, nOps, pending>>
    /\ UNCHANGED <<logvars, callers>>

DoConstruct == \E fault \in {"none", "open"} : Construct(fault)

----------------------------------------------------------------------------
(* addTopRow *)

MutTopRowTextDropsOld(row_line, existing_content) == row_line
\* the argument of write_text: row_line + existing_content
TopRowText(row_line, existing_content) == row_line \o existing_content

\* what addTopRow(row) does to file f: the file it leaves, and whether it
\* raises
TopRowEffect(f, row, fault) ==
    LET row_line == RowLine(row)
        existing_content == IF f.exists THEN ReadText(f.content) ELSE <<>>
    IN  CASE fault \in {"read", "open"} ->
                  \* read_text() or the open of write_text() raises
                  [file |-> f, raised |-> TRUE]
          [] fault = "write" ->
                  \* write_text() opened (and so truncated) the file, then failed
                  [file |-> File(TRUE, <<>>), raised |-> TRUE]
          [] OTHER ->
                  [file |-> File(TRUE, WriteText(TopRowText(row_line,
                                                            existing_content))),
                   raised |-> FALSE]

addTopRow(row, fault) ==
    LET effect == TopRowEffect(File(exists, content), row, fault)
    IN  /\ constructed
        /\ nOps < MaxOps
        /\ fault = "read" => exists
        /\ call' = [op |-> "addTopRow", row |-> row, fault |-> fault]
        /\ pre' = File(exists, content)
        /\ nOps' = nOps + 1
        /\ diags' = <<>>
        /\ results' = <<>>
        /\ exists' = effect.file.exists
        /\ content' = effect.file.content
        /\ raised' = effect.raised
        /\ clean' = (clean /\ ~effect.raised)
        /\ tops' = (IF effect.raised THEN tops ELSE Append(tops, row))
        /\ UNCHANGED <<constructed, base, ends, pending>>
        /\ UNCHANGED <<logvars, callers>>

----------------------------------------------------------------------------
(* addEntry *)

MutNeverNewline(bytes) == FALSE
\* last_pos > 0 and the last byte is not b"\n"
NeedsNewline(bytes) == Len(bytes) > 0 /\ bytes[Len(bytes)] # LF

\* the file after the writes of the "ab+" handle: the bytes that were there,
\* a newline when the tail needs one, the row
EntryBytes(bytes, row_line) ==
    bytes \o (IF NeedsNewline(bytes) THEN <<LF>> ELSE <<>>) \o row_line

addEntry(row, fault) ==
    LET row_line == RowLine(row)
        \* touch() when the file is gone
        bytes == IF exists THEN content ELSE <<>>
    IN  /\ constructed
        /\ nOps < MaxOps
        /\ fault = "read" => Len(bytes) > 0
        /\ call' = [op |-> "addEntry", row |-> row, fault |-> fault]
        /\ pre' = File(exists, content)
        /\ nOps' = nOps + 1
        /\ diags' = <<>>
        /\ results' = <<>>
        /\ UNCHANGED <<constructed, base, tops, pending>>
        /\ UNCHANGED <<logvars, callers>>
        /\ CASE fault = "open" ->
                  \* touch() or open("ab+") raises
                  /\ raised' = TRUE
                  /\ clean' = FALSE
                  /\ UNCHANGED <<exists, content, ends>>
             [] fault \in {"read", "write"} ->
                  \* the probe of the last byte or the flush of the writes raises
                  /\ raised' = TRUE
                  /\ clean' = FALSE
                  /\ exists' = TRUE
                  /\ content' = bytes
                  /\ UNCHANGED ends
             [] OTHER ->
                  /\ raised' = FALSE
                  /\ exists' = TRUE
                  /\ content' = EntryBytes(bytes, row_line)
                  /\ ends' = Append(ends, row)
                  /\ UNCHANGED clean

----------------------------------------------------------------------------
(* The environment: the file is deleted between two calls. *)

ExternalDelete ==
    /\ constructed
    /\ exists
    /\ nOps < MaxOps
    /\ exists' = FALSE
    /\ content' = <<>>
    /\ clean' = FALSE
    /\ call' = [op |-> "unlink"]
    /\ pre' = File(exists, content)
    /\ nOps' = nOps + 1
    /\ raised' = FALSE
    /\ diags' = <<>>
    /\ results' = <<>>
    /\ UNCHANGED <<constructed, base, tops, ends, pending>>
    /\ UNCHANGED <<logvars, callers>>

----------------------------------------------------------------------------
(* csv.reader(f, delimiter=delimiter, skipinitialspace=True) over a file   *)
(* opened with newline="": the excel dialect (quotechar '"', doublequote,  *)
(* no escapechar, not strict). The reader is fed the file line by line, a  *)
(* line ending after "\n", "\r\n" or a lone "\r", and sees the            *)
(* end-of-line token EOL after the last character of every line.          *)

EOL == "EOL"
\* a run of ordinary characters longer than csv.field_size_limit(): no field
\* can hold it
LONG == "LONG"

NewParser == [state |-> "START_RECORD", field |-> <<>>, fields |-> <<>>,
              error |-> FALSE]

\* parse_save_field
SaveField(ps) == [ps EXCEPT !.fields = Append(@, ps.field), !.field = <<>>]
\* parse_add_char: csv.Error "field larger than field limit" when the field
\* has grown to the limit
AddChar(ps, c) ==
    IF c = LONG THEN [ps EXCEPT !.error = TRUE]
    ELSE [ps EXCEPT !.field = Append(@, c)]
To(ps, st) == [ps EXCEPT !.state = st]
AfterNewline(c) == IF c = EOL THEN "START_RECORD" ELSE "EAT_CRNL"
IsNewline(c) == c = LF \/ c = CR

\* parse_process_char, state START_FIELD (START_RECORD falls through to it)
StartField(ps, c, delimiter) ==
    IF IsNewline(c) \/ c = EOL THEN To(SaveField(ps), AfterNewline(c))
    ELSE IF c = QUOTE THEN To(ps, "IN_QUOTED_FIELD")
    ELSE IF c = SPACE THEN To(ps, "START_FIELD")
    ELSE IF c = delimiter THEN To(SaveField(ps), "START_FIELD")
    ELSE To(AddChar(ps, c), "IN_FIELD")

\* parse_process_char
ProcessChar(ps, c, delimiter) ==
    CASE ps.state = "START_RECORD" ->
            IF c = EOL THEN ps
            ELSE IF IsNewline(c) THEN To(ps, "EAT_CRNL")
            ELSE StartField(ps, c, delimiter)
      [] ps.state = "START_FIELD" -> StartField(ps, c, delimiter)
      [] ps.state = "IN_FIELD" ->
            IF IsNewline(c) \/ c = EOL THEN To(SaveField(ps), AfterNewline(c))
            ELSE IF c = delimiter THEN To(SaveField(ps), "START_FIELD")
            ELSE AddChar(ps, c)
      [] ps.state = "IN_QUOTED_FIELD" ->
            IF c = EOL THEN ps
            ELSE IF c = QUOTE THEN To(ps, "QUOTE_IN_QUOTED_FIELD")
            ELSE AddChar(ps, c)
      [] ps.state = "QUOTE_IN_QUOTED_FIELD" ->
            IF c = QUOTE THEN To(AddChar(ps, c), "IN_QUOTED_FIELD")
            ELSE IF c = delimiter THEN To(SaveField(ps), "START_FIELD")
            ELSE IF IsNewline(c) \/ c = EOL
                 THEN To(SaveField(ps), AfterNewline(c))
            ELSE To(AddChar(ps, c), "IN_FIELD")
      [] ps.state = "EAT_CRNL" ->
            IF IsNewline(c) THEN ps
            ELSE IF c = EOL THEN To(ps, "START_RECORD")
            ELSE [ps EXCEPT !.error = TRUE]

\* position i holds the last character of a line of the file
EndsLine(text, i) ==
    \/ i = Len(text)
    \/ text[i] = LF
    \/ text[i] = CR /\ text[i + 1] # LF

RECURSIVE ReadRecords(_, _, _, _, _)
\* the records the reader yields from position i on, with the parser in ps
\* and rows already yielded; error: the reader raised csv.Error
ReadRecords(text, i, ps, rows, delimiter) ==
    IF i > Len(text)
    THEN [rows |-> IF ps.field # <<>> \/ ps.state = "IN_QUOTED_FIELD"
                   THEN Append(rows, SaveField(ps).fields)
                   ELSE rows,
          error |-> FALSE]
    ELSE LET p1 == ProcessChar(ps, text[i], delimiter)
             p2 == IF p1.error \/ ~EndsLine(text, i) THEN p1
                   ELSE ProcessChar(p1, EOL, delimiter)
         IN  IF p2.error THEN [rows |-> rows, error |-> TRUE]
             ELSE IF EndsLine(text, i) /\ p2.state = "START_RECORD"
                  THEN ReadRecords(text, i + 1, NewParser,
                                   Append(rows, p2.fields), delimiter)
                  ELSE ReadRecords(text, i + 1, p2, rows, delimiter)

\* list(csv.reader(f, delimiter=delimiter, skipinitialspace=True))
CsvReader(text, delimiter) == ReadRecords(text, 1, NewParser, <<>>, delimiter)

----------------------------------------------------------------------------
(* searchRows *)

\* the messages searchRows hands to _saveError
FileNotFound == "Archivo no encontrado para busqueda"
ColumnNotFound == "Columna no encontrada"
SearchError == "Error en searchRows"

\* str.lower(), on the letters of the model
LowerChar(c) == CASE c = "A" -> "a" [] c = "B" -> "b" [] OTHER -> c
Lower(text) == [i \in 1..Len(text) |-> LowerChar(text[i])]

MutNormKeepsCase(x, case_sensitive) == x
\* q = query if case_sensitive else query.lower(), and norm(x) likewise
Norm(x, case_sensitive) == IF case_sensitive THEN x ELSE Lower(x)

RECURSIVE TrimTrailingEmpty(_)
\* while row and row[-1] == "": row.pop()
TrimTrailingEmpty(row) ==
    IF row # <<>> /\ row[Len(row)] = <<>>
    THEN TrimTrailingEmpty(SubSeq(row, 1, Len(row) - 1))
    ELSE row

\* q in text
Contains(q, text) ==
    \E i \in 0..(Len(text) - Len(q)) : SubSeq(text, i + 1, i + Len(q)) = q

MutIndexOrZero(header, name) == IF \E i \in 1..Len(header) : header[i] = name THEN Some((CHOOSE i \in 1..Len(header) : header[i] = name /\ \A j \in 1..(i - 1) : header[j] # name) - 1) ELSE Some(0)
MutIndexLast(header, name) == IF \E i \in 1..Len(header) : header[i] = name THEN Some((CHOOSE i \in 1..Len(header) : header[i] = name /\ \A j \in 1..Len(header) : header[j] = name => j <= i) - 1) ELSE None
\* header.index(column_name): the first position (0-based) that holds the
\* name, None for ValueError
Index(header, name) ==
    IF \E i \in 1..Len(header) : header[i] = name
    THEN Some((CHOOSE i \in 1..Len(header) :
                  /\ header[i] = name
                  /\ \A j \in 1..(i - 1) : header[j] # name) - 1)
    ELSE None

\* fields = row if column is None else ([row[column]] if column < len(row) else [])
\* error: row[column] raised IndexError (a negative column beyond the row)
SelectFields(row, column) ==
    IF IsNone(column) THEN [fields |-> row, error |-> FALSE]
    ELSE LET c == Get(column)
         IN  IF c < Len(row)
             THEN IF c >= 0 THEN [fields |-> <<row[c + 1]>>, error |-> FALSE]
                  ELSE IF c >= -Len(row)
                       THEN [fields |-> <<row[Len(row) + c + 1]>>, error |-> FALSE]
                       ELSE [fields |-> <<>>, error |-> TRUE]
             ELSE [fields |-> <<>>, error |-> FALSE]

\* the comparison loop: some field equals q (exact) or contains it
Matched(fields, q, exact, case_sensitive) ==
    \E i \in 1..Len(fields) :
        LET text == Norm(fields[i], case_sensitive)
        IN  IF exact THEN text = q ELSE Contains(q, text)

RECURSIVE ScanRows(_, _, _, _, _)
\* for row in reader: ... ; error: the loop was left by an exception
ScanRows(rows, i, column, a, acc) ==
    IF i > Len(rows) THEN [results |-> acc, error |-> FALSE]
    ELSE IF rows[i] = <<>> THEN ScanRows(rows, i + 1, column, a, acc)
    ELSE LET row == IF a.trim_trailing_empty THEN TrimTrailingEmpty(rows[i])
                    ELSE rows[i]
             sel == SelectFields(row, column)
             q == Norm(a.query, a.case_sensitive)
         IN  IF sel.error THEN [results |-> acc, error |-> TRUE]
             ELSE IF Matched(sel.fields, q, a.exact, a.case_sensitive)
                  THEN ScanRows(rows, i + 1, column, a, Append(acc, row))
                  ELSE ScanRows(rows, i + 1, column, a, acc)

Returned(res, ds) == [results |-> res, diags |-> ds, raised |-> FALSE]

MutSearchDataSilent(rows, readerError, column, a) ==
    LET scan == ScanRows(rows, 1, column, a, <<>>)
    IN  Returned(scan.results, IF scan.error THEN <<SearchError>> ELSE <<>>)
\* the loop over the data rows and the except clause around it
SearchData(rows, readerError, column, a) ==
    LET scan == ScanRows(rows, 1, column, a, <<>>)
    IN  Returned(scan.results,
                 IF scan.error \/ readerError THEN <<SearchError>> ELSE <<>>)

MutMissingFileRaises == [results |-> <<>>, diags |-> <<>>, raised |-> TRUE]
\* if not self.filepath.exists(): report, and return the empty results
MissingFile == Returned(<<>>, <<FileNotFound>>)

MutReadsHeaderForName(a) == a.has_header \/ ~IsNone(a.column_name)
\* if has_header: the first record is read as the header
ReadsHeader(a) == a.has_header

\* searchRows(query, exact=, column=, case_sensitive=, column_name=,
\*            has_header=, trim_trailing_empty=, delimiter=) on file f
searchRows(f, a) ==
    IF ~f.exists THEN MissingFile
    ELSE LET reader == CsvReader(f.content, a.delimiter)
         IN  IF ~ReadsHeader(a)
             THEN SearchData(reader.rows, reader.error, a.column, a)
             ELSE IF reader.rows = <<>>
                  THEN \* next(reader): StopIteration, or csv.Error
                       Returned(<<>>, IF reader.error THEN <<SearchError>>
                                      ELSE <<>>)
             ELSE IF IsNone(a.column_name)
                  THEN SearchData(Tail(reader.rows), reader.error, a.column, a)
             ELSE IF IsNone(Index(Head(reader.rows), Get(a.column_name)))
                  THEN Returned(<<>>, <<ColumnNotFound>>)
             ELSE SearchData(Tail(reader.rows), reader.error,
                             Index(Head(reader.rows), Get(a.column_name)), a)

Queries == { <<"b">>, <<"B">>, <<>> }
Columns == { None, Some(-1), Some(0), Some(1), Some(2) }
ColumnNames == { None, Some(<<"a">>), Some(<<"b">>) }
Delimiters == { COMMA }

SearchArgs ==
    [ query : Queries, exact : BOOLEAN, column : Columns,
      case_sensitive : BOOLEAN, column_name : ColumnNames,
      has_header : BOOLEAN, trim_trailing_empty : BOOLEAN,
      delimiter : Delimiters ]

Search(a) ==
    LET r == searchRows(File(exists, content), a)
    IN  /\ constructed
        /\ call' = [op |-> "searchRows", args |-> a]
        /\ pre' = File(exists, content)
        /\ results' = r.results
        /\ diags' = r.diags
        /\ raised' = r.raised
        /\ pending' = None
        /\ UNCHANGED <<constructed, exists, content, base, tops, ends, clean,
                       nOps>>
        /\ UNCHANGED <<logvars, callers>>

\* the caller makes the call it was about to make
DoSearch == ~IsNone(pending) /\ Search(Get(pending))

\* the lines of the files searchRows is run on
SearchLines ==
    { <<"a", COMMA, "b", COMMA, LF>>,
      <<"a", COMMA, "b", COMMA, "a", LF>>,
      <<QUOTE, "a", COMMA, "b", QUOTE, COMMA, SPACE, "B", COMMA, LF>>,
      <<COMMA, LF>>,
      <<LF>>,
      <<LONG, COMMA, "b", COMMA, LF>> }

SearchFiles ==
    { Concat(ls) : ls \in UNION { [1..n -> SearchLines] : n \in 0..MaxLines } }

\* a constructed store whose caller is about to search; the file is the one
\* found at construction, or it has been deleted since
InitSearch ==
    /\ constructed = TRUE
    /\ exists \in BOOLEAN
    /\ content \in (IF exists THEN SearchFiles ELSE {<<>>})
    /\ pending \in {Some(a) : a \in SearchArgs}
    /\ call = [op |-> "init", fault |-> "none"]
    /\ raised = FALSE
    /\ diags = <<>>
    /\ results = <<>>
    /\ pre = File(exists, content)
    /\ base = content
    /\ tops = <<>>
    /\ ends = <<>>
    /\ clean = TRUE
    /\ nOps = 0
    /\ logger = NoLogger
    /\ console = <<>>
    /\ now = 0
    /\ callers = NoCallers

NextSearch == DoSearch

\* searchRows on a file found at construction
SpecSearch == InitSearch /\ [][NextSearch]_vars

----------------------------------------------------------------------------
(* Logger: a coloured line on the console, and the same line prepended to  *)
(* the store it was given, until it is disposed.                           *)

\* the ANSI colours of the levels
RED == "[91m"
YELLOW == "[93m"
CYAN == "[96m"
GREEN == "[92m"
GRAY == "[90m"
BLACK == "[30m"

\* the messages the callers log
Texts == { <<"u", "p">>, <<"n", "o">> }

\* how the addTopRow call of a log call goes: well, the file cannot be
\* opened, or the write fails after the file was opened (and truncated)
LogFaults == {"none", "open", "write"}

\* FechaHora().registro at clock reading t: "[%d/%b/%Y %H:%M:%S]", a bracketed
\* rendering of the time with no delimiter and no newline in it
FechaHora(t) == <<"[">> \o Decimal(t) \o <<"]">>

\* f"[{level}] {text}"
Formatted(level, text) == <<"[">> \o level \o <<"]", SPACE>> \o text

\* print(f"{color}[{level}] {text}{_RESET}")
LogLine(level, text, color) ==
    [kind |-> "log", color |-> color, text |-> Formatted(level, text)]
\* the line addTopRow prints once it has written
AddedLine == [kind |-> "added"]
\* print(f"{_RED}[ERROR] Desde {level}Log() '{e}': No se pudo guardar ...")
NotSavedLine(level) == [kind |-> "not saved", color |-> RED, level |-> level]

\* the row _save hands to addTopRow
LogRow(level, text, t) ==
    <<StrItem(Formatted(level, text)), StrItem(FechaHora(t))>>

\* Logger(doc, debug_enabled=False)
NewLogger(debug_enabled) ==
    /\ constructed
    /\ ~logger.made
    /\ logger' = [made |-> TRUE, doc |-> TRUE,
                  debug_enabled |-> IF IsNone(debug_enabled) THEN FALSE
                                    ELSE Get(debug_enabled),
                  disposed |-> FALSE, entered |-> FALSE]
    /\ call' = [op |-> "Logger", debug_enabled |-> debug_enabled]
    /\ pre' = File(exists, content)
    /\ raised' = FALSE
    /\ diags' = <<>>
    /\ results' = <<>>
    /\ console' = <<>>
    /\ UNCHANGED <<constructed, exists, content, base, tops, ends, clean,
                   nOps, pending, now, callers>>

MutDetachedNever(lg) == FALSE
\* if self._disposed or self._doc is None: return
Detached(lg) == lg.disposed \/ ~lg.doc

MutSaveSilent(lg, f, level, text, color, t, fault) ==
    LET effect == TopRowEffect(f, LogRow(level, text, t), fault)
    IN  [console |-> IF Detached(lg) \/ effect.raised
                     THEN <<LogLine(level, text, color)>>
                     ELSE <<LogLine(level, text, color), AddedLine>>,
         file |-> IF Detached(lg) THEN f ELSE effect.file,
         wrote |-> ~Detached(lg) /\ ~effect.raised,
         failed |-> ~Detached(lg) /\ effect.raised]
\* _save(level, text, color) at clock reading t, on file f: what it prints,
\* the file it leaves, whether a row went in and whether the store failed
Save(lg, f, level, text, color, t, fault) ==
    LET line == LogLine(level, text, color)
        effect == TopRowEffect(f, LogRow(level, text, t), fault)
    IN  IF Detached(lg)
        THEN [console |-> <<line>>, file |-> f, wrote |-> FALSE,
              failed |-> FALSE]
        ELSE IF effect.raised
        THEN \* except Exception as e: print(...)
             [console |-> <<line, NotSavedLine(level)>>, file |-> effect.file,
              wrote |-> FALSE, failed |-> TRUE]
        ELSE [console |-> <<line, AddedLine>>, file |-> effect.file,
              wrote |-> TRUE, failed |-> FALSE]

\* the call of one of the six log methods has outcome out
LogCall(method, level, text, fault, out) ==
    /\ logger.made
    /\ nOps < MaxLogs
    /\ fault # "none" => ~Detached(logger)
    /\ call' = [op |-> method, level |-> level, text |-> text,
                fault |-> fault]
    /\ pre' = File(exists, content)
    /\ nOps' = nOps + 1
    /\ now' = now + 1
    /\ raised' = FALSE
    /\ diags' = <<>>
    /\ results' = <<>>
    /\ console' = out.console
    /\ exists' = out.file.exists
    /\ content' = out.file.content
    /\ clean' = (clean /\ ~out.failed)
    /\ tops' = (IF out.wrote THEN Append(tops, LogRow(level, text, now))
                ELSE tops)
    /\ UNCHANGED <<constructed, base, ends, pending, logger, callers>>

\* the call of a method that hands its text to _save
Saving(method, level, text, color, fault) ==
    LogCall(method, level, text, fault,
            Save(logger, File(exists, content), level, text, color, now, fault))

newLog(text, fault) == Saving("newLog", <<"L", "o", "g">>, text, BLACK, fault)
error(text, fault) ==
    Saving("error", <<"E", "R", "R", "O", "R">>, text, RED, fault)
warning(text, fault) ==
    Saving("warning", <<"W", "A", "R", "N", "I", "N", "G">>, text, YELLOW,
           fault)
info(text, fault) == Saving("info", <<"I", "N", "F", "O">>, text, CYAN, fault)
success(text, fault) ==
    Saving("success", <<"S", "U", "C", "C", "E", "S", "S">>, text, GREEN,
           fault)

MutDebugGateOpen(lg) == TRUE
\* if not self._debug_enabled: return
DebugGate(lg) == lg.debug_enabled

debug(text, fault) ==
    LET level == <<"D", "E", "B", "U", "G">>
    IN  /\ logger.made
        /\ IF DebugGate(logger)
           THEN Saving("debug", level, text, GRAY, fault)
           ELSE /\ fault = "none"
                /\ LogCall("debug", level, text, fault,
                           [console |-> <<>>, file |-> File(exists, content),
                            wrote |-> FALSE, failed |-> FALSE])

\* a call of the Logger that prints nothing and leaves the file alone
Quiet ==
    /\ pre' = File(exists, content)
    /\ raised' = FALSE
    /\ diags' = <<>>
    /\ results' = <<>>
    /\ console' = <<>>
    /\ UNCHANGED <<constructed, exists, content, base, tops, ends, clean,
                   nOps, pending, now, callers>>

\* set_debug(enabled=True)
set_debug(enabled) ==
    /\ logger.made
    /\ logger' = [logger EXCEPT !.debug_enabled =
                     IF IsNone(enabled) THEN TRUE ELSE Get(enabled)]
    /\ call' = [op |-> "set_debug", enabled |-> enabled]
    /\ Quiet

MutDisposedKeepsDoc(lg) == [lg EXCEPT !.disposed = TRUE]
\* self._disposed = True; self._doc = None
Disposed(lg) == [lg EXCEPT !.disposed = TRUE, !.doc = FALSE]

dispose ==
    /\ logger.made
    /\ logger' = Disposed(logger)
    /\ call' = [op |-> "dispose", disposals |-> 1]
    /\ Quiet

\* with logger as lg: __enter__ returns self
Enter ==
    /\ logger.made
    /\ ~logger.entered
    /\ logger' = [logger EXCEPT !.entered = TRUE]
    /\ call' = [op |-> "__enter__", returned |-> "self"]
    /\ Quiet

\* the end of the with block, reached normally (exc is None) or by an
\* exception of the block: __exit__ calls dispose() and returns None, so the
\* exception goes on to the caller
Exit(exc) ==
    /\ logger.made
    /\ logger.entered
    /\ logger' = [Disposed(logger) EXCEPT !.entered = FALSE]
    /\ call' = [op |-> "__exit__", exc |-> exc, disposals |-> 1]
    /\ pre' = File(exists, content)
    /\ raised' = ~IsNone(exc)
    /\ diags' = <<>>
    /\ results' = <<>>
    /\ console' = <<>>
    /\ UNCHANGED <<constructed, exists, content, base, tops, ends, clean,
                   nOps, pending, now, callers>>

DoNewLogger == \E d \in {None, Some(FALSE), Some(TRUE)} : NewLogger(d)
DoNewLog == \E text \in Texts, fault \in LogFaults : newLog(text, fault)
DoError == \E text \in Texts, fault \in LogFaults : error(text, fault)
DoWarning == \E text \in Texts, fault \in LogFaults : warning(text, fault)
DoInfo == \E text \in Texts, fault \in LogFaults : info(text, fault)
DoSuccess == \E text \in Texts, fault \in LogFaults : success(text, fault)
DoDebug == \E text \in Texts, fault \in LogFaults : debug(text, fault)
DoSetDebug == \E e \in {None, Some(FALSE), Some(TRUE)} : set_debug(e)
DoExit == \E exc \in {None, Some("Exception")} : Exit(exc)

NextLogger ==
    \/ DoConstruct
    \/ DoNewLogger
    \/ DoNewLog
    \/ DoError
    \/ DoWarning
    \/ DoInfo
    \/ DoSuccess
    \/ DoDebug
    \/ DoSetDebug
    \/ dispose
    \/ Enter
    \/ DoExit

\* one store and the Logger made on it, under a single caller
SpecLogger == Init /\ [][NextLogger]_vars

----------------------------------------------------------------------------
(* addTopRow under two concurrent callers. Nothing serializes the calls:   *)
(* the read of the old content, the open of write_text (which truncates)   *)
(* and its write are separate steps, and the steps of the two callers      *)
(* interleave freely.                                                      *)

Callers == {1, 2}
Other(p) == 3 - p

\* a file opened with "w" writes from offset 0, over what is there
Overlay(old, data) == data \o SubSeq(old, Len(data) + 1, Len(old))

\* a step of caller p: what it changes besides the file
RaceStep(p, step, c) ==
    /\ callers' = [callers EXCEPT ![p] = c]
    /\ call' = [op |-> "addTopRow", caller |-> p, step |-> step]
    /\ pre' = File(exists, content)
    /\ raised' = FALSE
    /\ diags' = <<>>
    /\ results' = <<>>
    /\ UNCHANGED <<constructed, base, ends, clean, nOps, pending>>
    /\ UNCHANGED logvars

\* existing_content = self.filepath.read_text() if self.filepath.exists()
\* else ""      (saw: where the other caller was at that moment)
ReadOld(p) ==
    /\ callers[p].pc = "idle"
    /\ RaceStep(p, "read",
                [callers[p] EXCEPT
                    !.pc = "read",
                    !.existing_content =
                        IF exists THEN ReadText(content) ELSE <<>>,
                    !.saw = callers[Other(p)].pc])
    /\ UNCHANGED <<exists, content, tops>>

\* write_text(...): the file is opened for writing, and truncated
OpenToWrite(p) ==
    /\ callers[p].pc = "read"
    /\ RaceStep(p, "open", [callers[p] EXCEPT !.pc = "open"])
    /\ exists' = TRUE
    /\ content' = <<>>
    /\ UNCHANGED tops

\* write_text(row_line + existing_content): the text is written and the
\* file closed
WriteNew(p) ==
    /\ callers[p].pc = "open"
    /\ RaceStep(p, "write", [callers[p] EXCEPT !.pc = "done"])
    /\ exists' = TRUE
    /\ content' = Overlay(content,
                          WriteText(TopRowText(RowLine(callers[p].row),
                                               callers[p].existing_content)))
    /\ tops' = Append(tops, callers[p].row)

\* a constructed store and two callers, each about to prepend its row
InitRace ==
    /\ constructed = TRUE
    /\ exists = TRUE
    /\ content \in InitialContents
    /\ callers \in [Callers -> [pc : {"idle"}, row : Rows,
                                existing_content : {<<>>}, saw : {"idle"}]]
    /\ call = [op |-> "init", fault |-> "none"]
    /\ raised = FALSE
    /\ diags = <<>>
    /\ results = <<>>
    /\ pre = File(exists, content)
    /\ base = content
    /\ tops = <<>>
    /\ ends = <<>>
    /\ clean = TRUE
    /\ nOps = 0
    /\ pending = None
    /\ logger = NoLogger
    /\ console = <<>>
    /\ now = 0

DoReadOld == \E p \in Callers : ReadOld(p)
DoOpenToWrite == \E p \in Callers : OpenToWrite(p)
DoWriteNew == \E p \in Callers : WriteNew(p)

NextRace ==
    \/ DoReadOld
    \/ DoOpenToWrite
    \/ DoWriteNew

SpecRace == InitRace /\ [][NextRace]_vars

----------------------------------------------------------------------------
(* The store under a single caller. *)

DoAddTopRow == \E row \in Rows, fault \in Faults : addTopRow(row, fault)
DoAddEntry == \E row \in Rows, fault \in Faults : addEntry(row, fault)

Next ==
    \/ DoConstruct
    \/ DoAddTopRow
    \/ DoAddEntry
    \/ ExternalDelete

Spec == Init /\ [][Next]_vars

----------------------------------------------------------------------------
(* What the claims are stated with. *)

\* the serialized rows, one after the other
RowLines(rows) == Concat([i \in 1..Len(rows) |-> RowLine(rows[i])])

\* number of lines of a text: its newline characters, and an unterminated tail
LineCount(text) ==
    Count(text, LF) + (IF text # <<>> /\ text[Len(text)] # LF THEN 1 ELSE 0)

RECURSIVE Sum(_)
Sum(ns) == IF ns = <<>> THEN 0 ELSE Head(ns) + Sum(Tail(ns))

\* number of newline characters inside the fields of the rows
EmbeddedNewlines(rows) ==
    Sum([i \in 1..Len(rows) |->
            Sum([j \in 1..Len(rows[i]) |-> Count(Str(rows[i][j]), LF)])])

\* only addEntry has written, every call succeeded, the file started empty
OnlyAppends == constructed /\ clean /\ base = <<>> /\ tops = <<>>
\* only addTopRow has written, every call succeeded
OnlyPrepends == constructed /\ clean /\ ends = <<>>

WroteOk(op) == call.op = op /\ ~raised
Failed(op) == call.op = op /\ call.fault # "none"

----------------------------------------------------------------------------
(* C1: append-safety. *)

\* C1 as stated: after N successful addEntry calls on a file that started
\* empty, whatever the rows, the file has exactly N lines.
C1_ExactlyNLines == OnlyAppends => LineCount(content) = Len(ends)

\* C1, amended: after N successful addEntry calls on a file that started
\* empty, every row is in the file whole and starts at the beginning of the
\* file or right after a newline, and the file has N newline characters plus
\* those inside the fields of the rows (so N lines when no field holds one).
C1_AppendSafety ==
    OnlyAppends =>
        /\ \A k \in 1..Len(ends) :
              LET off == Len(RowLines(SubSeq(ends, 1, k - 1)))
                  line == RowLine(ends[k])
              IN  /\ off = 0 \/ content[off] = LF
                  /\ SubSeq(content, off + 1, off + Len(line)) = line
        /\ Count(content, LF) = Len(ends) + EmbeddedNewlines(ends)
        /\ content # <<>> => content[Len(content)] = LF

\* three appends in a row, one of them of a row with a newline in a field
C1_Witness ==
    /\ OnlyAppends
    /\ WroteOk("addEntry")
    /\ Len(ends) = 3
    /\ EmbeddedNewlines(ends) = 1

----------------------------------------------------------------------------
(* C2: prepend ordering. *)

\* C2: after any sequence of successful addTopRow calls the file is the rows
\* in reverse call order followed by the content found at construction,
\* unchanged.
C2_PrependOrdering ==
    OnlyPrepends => content = RowLines(Reverse(tops)) \o base

----------------------------------------------------------------------------
(* C3: append on a non-terminated tail. *)

\* C3: a successful addEntry keeps every byte that was in the file as a
\* prefix of the new content, and after it writes the serialized row,
\* preceded by one newline exactly when the file was non-empty and did not
\* end in a newline.
C3_AppendFrame ==
    WroteOk("addEntry") =>
        LET old == IF pre.exists THEN pre.content ELSE <<>>
            added == SubSeq(content, Len(old) + 1, Len(content))
        IN  /\ Len(content) >= Len(old)
            /\ SubSeq(content, 1, Len(old)) = old
            /\ IF old # <<>> /\ old[Len(old)] # LF
               THEN added = <<LF>> \o RowLine(call.row)
               ELSE added = RowLine(call.row)

\* the file held a,b without a newline and the append wrote a newline first
C3_Witness ==
    /\ WroteOk("addEntry")
    /\ pre.content = <<"a", COMMA, "b">>
    /\ content = <<"a", COMMA, "b", LF, "c", COMMA, "4", "2", COMMA, LF>>

----------------------------------------------------------------------------
(* C4: the format over mixed writes. *)

\* C4: after any interleaved sequence of successful addTopRow and addEntry
\* calls on a file that started empty, the content is the serialized rows,
\* the prepended ones in reverse call order and then the appended ones in
\* call order, and it ends with a newline.
C4_FormatInvariant ==
    (constructed /\ clean /\ base = <<>>) =>
        /\ content = RowLines(Reverse(tops)) \o RowLines(ends)
        /\ content # <<>> => content[Len(content)] = LF

----------------------------------------------------------------------------
(* C5: write/read round trip. *)

\* C5: after a successful addTopRow(R), the first record the search parser
\* reads from the file, trailing empty fields trimmed, is R (rendered as
\* strings, trailing empty fields trimmed).
C5_RoundTrip ==
    WroteOk("addTopRow") =>
        LET read == CsvReader(content, COMMA).rows
        IN  /\ read # <<>>
            /\ TrimTrailingEmpty(Head(read)) = TrimTrailingEmpty(Strs(call.row))

----------------------------------------------------------------------------
(* C6: the error policy of the store. *)

\* C6: when the file read or write inside addTopRow or addEntry fails, the
\* call returns normally and the failure is reported through _saveError.
C6_ErrorPolicy ==
    (Failed("addTopRow") \/ Failed("addEntry")) =>
        (~raised /\ diags # <<>>)

----------------------------------------------------------------------------
(* What the claims about searchRows are stated with. *)

SearchDone == call.op = "searchRows"

\* the records the scan examines: every record, or every record but the header
DataRows(text, a) ==
    LET rows == CsvReader(text, a.delimiter).rows
    IN  IF a.has_header /\ rows # <<>> THEN Tail(rows) ELSE rows

\* q occurs in t
IsSubstring(q, t) ==
    \E i \in 0..Len(t) :
        /\ i + Len(q) <= Len(t)
        /\ \A k \in 1..Len(q) : t[i + k] = q[k]

\* the first line of a text, and what follows it
FirstLineLen(text) ==
    CHOOSE i \in 1..Len(text) :
        EndsLine(text, i) /\ \A j \in 1..(i - 1) : ~EndsLine(text, j)
FirstLine(text) == SubSeq(text, 1, FirstLineLen(text))
AfterFirstLine(text) == SubSeq(text, FirstLineLen(text) + 1, Len(text))

RECURSIVE Lines(_)
\* the lines of a text
Lines(text) ==
    IF text = <<>> THEN <<>>
    ELSE <<FirstLine(text)>> \o Lines(AfterFirstLine(text))

\* the reader can parse the line
WellFormed(line) == \A i \in 1..Len(line) : line[i] # LONG

\* the first record of the file is its first line
HeaderIsFirstLine(text, d) ==
    /\ text # <<>>
    /\ Len(CsvReader(FirstLine(text), d).rows) = 1
    /\ CsvReader(text, d).rows =
          CsvReader(FirstLine(text), d).rows
             \o CsvReader(AfterFirstLine(text), d).rows

\* the same search by column index k, with no header
ByColumn(a, k) ==
    [a EXCEPT !.has_header = FALSE, !.column_name = None, !.column = Some(k)]

\* a search with has_header and a column_name, on a file with a header line
ByName ==
    /\ SearchDone
    /\ pre.exists
    /\ call.args.has_header
    /\ ~IsNone(call.args.column_name)
    /\ HeaderIsFirstLine(content, call.args.delimiter)

----------------------------------------------------------------------------
(* C7: search exactness and order. *)

\* C7: a search for v in column c (c >= 0, trailing empty fields trimmed, the
\* column not taken from a header name) of a file the reader can parse
\* returns, in file order and as their
\* trimmed field sequences, exactly the data rows whose field at index c
\* equals v (exact) or contains v (not exact), both sides lower-cased unless
\* case_sensitive.
C7_SearchExactness ==
    ( /\ SearchDone
      /\ pre.exists
      /\ WellFormed(content)
      /\ call.args.trim_trailing_empty
      /\ ~IsNone(call.args.column)
      /\ Get(call.args.column) >= 0
      /\ call.args.has_header => IsNone(call.args.column_name) ) =>
        LET a == call.args
            c == Get(a.column)
            data == DataRows(content, a)
            trimmed == [i \in 1..Len(data) |-> TrimTrailingEmpty(data[i])]
            Case(x) == IF a.case_sensitive THEN x ELSE Lower(x)
            Hit(row) ==
                /\ c < Len(row)
                /\ IF a.exact THEN Case(row[c + 1]) = Case(a.query)
                   ELSE IsSubstring(Case(a.query), Case(row[c + 1]))
        IN  /\ results = SelectSeq(trimmed, Hit)
            /\ diags = <<>>
            /\ ~raised

\* an exact, case-insensitive search for b in column 1 that returns two rows,
\* one of them for its field B, in file order
C7_Witness ==
    /\ SearchDone
    /\ call.args.exact
    /\ ~call.args.case_sensitive
    /\ call.args.column = Some(1)
    /\ call.args.query = <<"b">>
    /\ ~call.args.has_header
    /\ call.args.trim_trailing_empty
    /\ results = << << <<"a">>, <<"b">> >>,
                    << <<"a", COMMA, "b">>, <<"B">> >> >>

----------------------------------------------------------------------------
(* C8: header resolution. *)

\* C8 as stated: with has_header and a column_name that occurs in the header
\* at index k, the search returns what the search with column=k returns on
\* the data rows alone.
C8_AnyIndexOfName ==
    ByName =>
        LET a == call.args
            header == Head(CsvReader(content, a.delimiter).rows)
        IN  \A k \in 0..(Len(header) - 1) :
               header[k + 1] = Get(a.column_name) =>
                  results = searchRows(File(TRUE, AfterFirstLine(content)),
                                       ByColumn(a, k)).results

\* C8, amended: with has_header and a column_name whose first occurrence in
\* the header is at index k, the search returns and reports what the search
\* with column=k returns and reports on the data rows alone.
C8_HeaderResolution ==
    ByName =>
        LET a == call.args
            header == Head(CsvReader(content, a.delimiter).rows)
        IN  \A k \in 0..(Len(header) - 1) :
               ( /\ header[k + 1] = Get(a.column_name)
                 /\ \A j \in 1..k : header[j] # Get(a.column_name) ) =>
                  /\ results = searchRows(File(TRUE, AfterFirstLine(content)),
                                          ByColumn(a, k)).results
                  /\ diags = searchRows(File(TRUE, AfterFirstLine(content)),
                                        ByColumn(a, k)).diags
                  /\ ~raised

\* the name b is resolved to column 1 of the header a,b, and the data row
\* is returned for its field B
C8_Witness ==
    /\ ByName
    /\ call.args.column_name = Some(<<"b">>)
    /\ call.args.query = <<"b">>
    /\ call.args.exact
    /\ Head(CsvReader(content, COMMA).rows) = << <<"a">>, <<"b">>, <<>> >>
    /\ results = << << <<"a", COMMA, "b">>, <<"B">> >> >>

----------------------------------------------------------------------------
(* C9: unresolved column name. *)

\* C9: with has_header and a column_name that is no field of the header row,
\* the search returns no rows, reports the unresolved column and does not
\* raise.
C9_UnresolvedColumnName ==
    ( /\ ByName
      /\ \A i \in 1..Len(Head(CsvReader(content, call.args.delimiter).rows)) :
            Head(CsvReader(content, call.args.delimiter).rows)[i]
               # Get(call.args.column_name) ) =>
        /\ results = <<>>
        /\ diags = <<ColumnNotFound>>
        /\ ~raised

\* the name b is not in the header, and the data row a,b would have matched
C9_Witness ==
    /\ ByName
    /\ call.args.column_name = Some(<<"b">>)
    /\ call.args.query = <<"b">>
    /\ IsNone(call.args.column)
    /\ CsvReader(content, COMMA).rows =
          << << <<"a", COMMA, "b">>, <<"B">>, <<>> >>,
             << <<"a">>, <<"b">>, <<>> >> >>
    /\ results = <<>>
    /\ diags = <<ColumnNotFound>>

----------------------------------------------------------------------------
(* C10: missing file on search. *)

\* C10: searchRows on a store whose file does not exist returns the empty
\* sequence, reports the missing file and does not raise.
C10_MissingFile ==
    (SearchDone /\ ~pre.exists) =>
        /\ results = <<>>
        /\ diags = <<FileNotFound>>
        /\ ~raised

\* a search was made while the file was missing
C10_Witness ==
    /\ SearchDone
    /\ ~pre.exists
    /\ ~exists
    /\ diags = <<FileNotFound>>

----------------------------------------------------------------------------
(* What the claims about the Logger are stated with. *)

LogMethods == {"newLog", "error", "warning", "info", "success", "debug"}

\* the colour each method prints in
ColorOf(method) ==
    CASE method = "newLog" -> BLACK
      [] method = "error" -> RED
      [] method = "warning" -> YELLOW
      [] method = "info" -> CYAN
      [] method = "success" -> GREEN
      [] method = "debug" -> GRAY

\* the last call was a log call, and the console line of that call
Logged == call.op \in LogMethods
LineOf(c) == LogLine(c.level, c.text, ColorOf(c.op))

\* the logger is in its Active state, holding its store / in its Disposed
\* state, holding none
Active == logger.made /\ ~logger.disposed /\ logger.doc
IsDisposed == logger.made /\ logger.disposed /\ ~logger.doc

----------------------------------------------------------------------------
(* C11: the lifecycle of the Logger. *)

\* C11: a Logger is Active or Disposed; dispose() moves it to Disposed and
\* releases the store; no call (set_debug and entering a with block
\* included) brings a disposed Logger back, and dispose() on a disposed
\* Logger changes nothing; a log call on a disposed Logger still prints its
\* console line (a debug call only when the gate is open, as before
\* dispose) and the file of the store is never modified again.
C11_Lifecycle ==
    [][ /\ (logger.made /\ logger'.made) => (Active' \/ IsDisposed')
        /\ call'.op = "dispose" => IsDisposed'
        /\ IsDisposed =>
              /\ IsDisposed'
              /\ exists' = exists /\ content' = content
              /\ call'.op = "dispose" => logger' = logger
              /\ call'.op \in LogMethods =>
                    console' = IF call'.op = "debug" /\ ~logger.debug_enabled
                               THEN <<>>
                               ELSE <<LineOf(call')>> ]_vars

\* a row was logged, the Logger was disposed, and a later error() call
\* printed its line and left the file as it was
C11_Witness ==
    /\ IsDisposed
    /\ call.op = "error"
    /\ console = <<LineOf(call)>>
    /\ tops # <<>>
    /\ File(exists, content) = pre
    /\ content # base

----------------------------------------------------------------------------
(* C12: every log call of an active Logger is persisted. *)

\* a log call that reached _save was just made on an Active Logger, and no
\* call of the store has failed so far
Persisted ==
    /\ Logged
    /\ Active
    /\ clean
    /\ call.op = "debug" => logger.debug_enabled

\* C12: a call of newLog, error, warning, info or success (or of debug with
\* the gate open) on an Active Logger prints one console line "[LEVEL] text"
\* and prepends exactly one row (that text, the timestamp of the call), so
\* that after k such calls the file is the k rows, the latest first,
\* followed by the content the file had before them.
C12_LogPersistence ==
    Persisted =>
        /\ Cardinality({i \in 1..Len(console) : console[i].kind = "log"}) = 1
        /\ console[1] = LineOf(call)
        /\ tops # <<>>
        /\ tops[Len(tops)] = LogRow(call.level, call.text, now - 1)
        /\ content = RowLine(tops[Len(tops)]) \o pre.content
        /\ content = RowLines(Reverse(tops)) \o base

----------------------------------------------------------------------------
(* C13: a failure of the store during a log call. *)

\* C13: when addTopRow fails during a log call, the log call returns
\* normally, its console line has been printed, the failure shows only as
\* one more console line (nothing goes through _saveError), and the Logger
\* stays Active: a later call goes to the store again, and prepends its row
\* when the store works.
C13_StoreFailure ==
    /\ (Logged /\ call.fault # "none") =>
          /\ ~raised
          /\ console = <<LineOf(call), NotSavedLine(call.level)>>
          /\ diags = <<>>
          /\ Active
          /\ ~clean
    /\ (Logged /\ Active /\ ~clean /\ call.fault = "none"
          /\ (call.op = "debug" => logger.debug_enabled)) =>
          /\ console = <<LineOf(call), AddedLine>>
          /\ tops # <<>>
          /\ content = RowLine(tops[Len(tops)]) \o ReadText(pre.content)

\* a log call failed on a write that had truncated the file, and the next
\* log call put its row in the file
C13_Witness ==
    /\ Logged
    /\ Active
    /\ ~clean
    /\ call.fault = "none"
    /\ pre = File(TRUE, <<>>)
    /\ base # <<>>
    /\ Len(tops) = 1
    /\ content = RowLine(tops[1])

----------------------------------------------------------------------------
(* C14: the debug gate. *)

\* what a log call that is let through does: its console line, and its row
\* in the file when the Logger is Active and the store works
LetThrough ==
    /\ console # <<>>
    /\ console[1] = LineOf(call)
    /\ (Active /\ call.fault = "none") =>
          /\ console = <<LineOf(call), AddedLine>>
          /\ content = RowLine(LogRow(call.level, call.text, now - 1))
                          \o ReadText(pre.content)
    /\ ~Active => (console = <<LineOf(call)>> /\ File(exists, content) = pre)

\* C14: _debug_enabled is False unless the constructor is told otherwise and
\* changes only through set_debug, which sets it to its argument; a debug
\* call with the gate closed prints nothing and leaves the file alone; a
\* debug call with the gate open does what the calls of the other levels
\* do; and the calls of the other five levels do it whatever the gate is.
C14_DebugGate ==
    [][ /\ (call'.op = "Logger" /\ IsNone(call'.debug_enabled)) =>
              ~logger'.debug_enabled
        /\ (logger.made /\ logger'.debug_enabled # logger.debug_enabled) =>
              call'.op = "set_debug"
        /\ call'.op = "set_debug" =>
              logger'.debug_enabled =
                 (IsNone(call'.enabled) \/ Get(call'.enabled))
        /\ (call'.op = "debug" /\ ~logger.debug_enabled) =>
              /\ console' = <<>>
              /\ exists' = exists /\ content' = content
              /\ ~raised'
        /\ (call'.op = "debug" /\ logger.debug_enabled) => LetThrough'
        /\ call'.op \in LogMethods \ {"debug"} => LetThrough' ]_vars

\* as in test2: a Logger made with the default gate, a debug call that
\* printed nothing, set_debug(True), and a debug call that is in the file
C14_Witness ==
    /\ call.op = "debug"
    /\ Active
    /\ clean
    /\ logger.debug_enabled
    /\ nOps = 2
    /\ Len(tops) = 1
    /\ console = <<LineOf(call), AddedLine>>
    /\ content = RowLine(LogRow(call.level, call.text, 1)) \o ReadText(base)

----------------------------------------------------------------------------
(* C15: the Logger as a context manager. *)

\* C15: __enter__ returns the Logger itself and changes nothing else; at the
\* end of the with block, reached normally or by an exception, __exit__
\* calls dispose() exactly once, so the Logger is Disposed and holds no
\* store on every way out (and the exception, if any, goes on to the
\* caller).
C15_ScopedUse ==
    [][ /\ call'.op = "__enter__" =>
              /\ call'.returned = "self"
              /\ logger' = [logger EXCEPT !.entered = TRUE]
              /\ exists' = exists /\ content' = content
        /\ call'.op = "__exit__" =>
              /\ call'.disposals = 1
              /\ IsDisposed'
              /\ ~logger'.entered
              /\ raised' = ~IsNone(call'.exc)
              /\ exists' = exists /\ content' = content ]_vars

\* a with block on an Active Logger logged a row and was left by an
\* exception: the Logger is Disposed
C15_Witness ==
    /\ call.op = "__exit__"
    /\ ~IsNone(call.exc)
    /\ raised
    /\ IsDisposed
    /\ tops # <<>>

----------------------------------------------------------------------------
(* C16: construction, and the life of the file. *)

\* C16: constructing a store whose file is absent creates an empty file and
\* does not raise (when the file can be created); constructing a store whose
\* file is there leaves its content as it is; and no call of the store
\* deletes the file: a file that is there is still there after the call,
\* and only the environment removes it.
C16_Construction ==
    [][ /\ (call'.op = "init" /\ call'.fault = "none") =>
              /\ constructed'
              /\ ~raised'
              /\ exists'
              /\ content' = IF exists THEN content ELSE <<>>
        /\ (exists /\ call'.op \in {"init", "addTopRow", "addEntry"}) =>
              exists'
        /\ (exists /\ ~exists') => call'.op = "unlink" ]_vars

\* a store was constructed on a missing file, which is now there and empty
C16_Witness ==
    /\ call.op = "init"
    /\ constructed
    /\ ~pre.exists
    /\ exists
    /\ content = <<>>
    /\ ~raised

----------------------------------------------------------------------------
(* C17: a column index that is out of bounds for a row. *)

\* C17: in a search by column index c, a row of which c is not a valid
\* 0-based index once it has been trimmed (c < 0 or c >= its length) has no
\* candidate field: it does not match, no error is reported and the scan
\* goes on, so that the result is exactly the rows of which c is a valid
\* index and whose field at c matches.
C17_ColumnOutOfBounds ==
    ( /\ SearchDone
      /\ pre.exists
      /\ ~CsvReader(content, call.args.delimiter).error
      /\ ~IsNone(call.args.column)
      /\ call.args.has_header => IsNone(call.args.column_name) ) =>
        LET a == call.args
            c == Get(a.column)
            data == DataRows(content, a)
            examined == [i \in 1..Len(data) |->
                            IF a.trim_trailing_empty
                            THEN TrimTrailingEmpty(data[i]) ELSE data[i]]
            Case(x) == IF a.case_sensitive THEN x ELSE Lower(x)
            Hit(row) ==
                /\ 0 <= c /\ c < Len(row)
                /\ IF a.exact THEN Case(row[c + 1]) = Case(a.query)
                   ELSE IsSubstring(Case(a.query), Case(row[c + 1]))
        IN  /\ results = SelectSeq(examined, Hit)
            /\ diags = <<>>
            /\ ~raised

----------------------------------------------------------------------------
(* C18: a row that cannot be parsed. *)

\* the file without its malformed lines, and the file up to its first
\* malformed line
WithoutMalformed(text) == Concat(SelectSeq(Lines(text), WellFormed))
BeforeMalformed(text) ==
    LET ls == Lines(text)
        k == CHOOSE i \in 1..Len(ls) :
                /\ ~WellFormed(ls[i])
                /\ \A j \in 1..(i - 1) : WellFormed(ls[j])
    IN  Concat(SubSeq(ls, 1, k - 1))

\* a search (not by column name) that scanned a file with a line the reader
\* cannot parse, the header line, if any, being well-formed
HitMalformed ==
    /\ SearchDone
    /\ pre.exists
    /\ ~WellFormed(content)
    /\ call.args.has_header =>
          /\ IsNone(call.args.column_name)
          /\ WellFormed(FirstLine(content))

\* C18 as stated: a row that cannot be parsed is skipped and the scan goes
\* on: the result is that of the same search on the file without that row,
\* every matching row after it included.
C18_MalformedSkipped ==
    HitMalformed =>
        results = searchRows(File(TRUE, WithoutMalformed(content)),
                             call.args).results

\* C18, amended: a row that cannot be parsed ends the scan: the error is
\* reported through _saveError, the call does not raise, and the result is
\* that of the same search on the rows before the malformed one; no row
\* after it is returned.
C18_MalformedEndsScan ==
    HitMalformed =>
        /\ results = searchRows(File(TRUE, BeforeMalformed(content)),
                                call.args).results
        /\ diags = <<SearchError>>
        /\ ~raised

\* a search for b in the file  LONG,b, / a,b,  returned nothing: the row
\* after the malformed one matches and is not in the result
C18_Witness ==
    /\ HitMalformed
    /\ content = <<LONG, COMMA, "b", COMMA, LF, "a", COMMA, "b", COMMA, LF>>
    /\ call.args.query = <<"b">>
    /\ call.args.column = Some(1)
    /\ ~call.args.has_header
    /\ results = <<>>
    /\ diags = <<SearchError>>

----------------------------------------------------------------------------
(* C20: a column name without a header. *)

\* C20: a search with a column_name and has_header false ignores the name:
\* no row is taken as a header, the name brings no report (never "Columna
\* no encontrada"), and the search returns and reports what the same search
\* without column_name does, by the column index given or over all fields.
C20_NameWithoutHeader ==
    ( /\ SearchDone
      /\ ~call.args.has_header
      /\ ~IsNone(call.args.column_name) ) =>
        LET same == searchRows(pre, [call.args EXCEPT !.column_name = None])
        IN  /\ results = same.results
            /\ diags = same.diags
            /\ diags # <<ColumnNotFound>>
            /\ raised = same.raised
            /\ (pre.exists /\ WellFormed(content)
                  /\ call.args.query = <<>> /\ ~call.args.exact
                  /\ ~call.args.trim_trailing_empty
                  /\ IsNone(call.args.column)) =>
                       \* every record of the file, the first one included
                       results = SelectSeq(CsvReader(content, COMMA).rows,
                                           LAMBDA row : row # <<>>)

\* a search for b in column 1 with the name a and no header: a is no field
\* of the first row, and the first row is in the result
C20_Witness ==
    /\ SearchDone
    /\ ~call.args.has_header
    /\ call.args.column_name = Some(<<"a">>)
    /\ call.args.column = Some(1)
    /\ call.args.query = <<"b">>
    /\ call.args.trim_trailing_empty
    /\ content = <<QUOTE, "a", COMMA, "b", QUOTE, COMMA, SPACE, "B", COMMA, LF,
                   "a", COMMA, "b", COMMA, LF>>
    /\ results = << << <<"a", COMMA, "b">>, <<"B">> >>,
                    << <<"a">>, <<"b">> >> >>
    /\ diags = <<>>

----------------------------------------------------------------------------
(* C19: two concurrent addTopRow calls. *)

\* both calls have returned
BothDone == \A p \in Callers : callers[p].pc = "done"

\* the calls were serialized: each caller read the file while the other
\* had not started or had returned
Serialized == \A p \in Callers : callers[p].saw \in {"idle", "done"}

\* both callers read the file before either of them wrote
BothReadFirst == \E p \in Callers : callers[p].saw = "read"

\* the file holds both rows, in one order or the other, over the content it
\* had (all of it as read_text reads it: a carriage return is read as a
\* newline)
NoRowLost ==
    \E p \in Callers :
        ReadText(content) =
           ReadText(RowLine(callers[p].row) \o RowLine(callers[Other(p)].row)
                       \o base)

\* C19: addTopRow reads the file and then writes it, in separate steps: when
\* the two calls are serialized no row is lost, and when both callers read
\* before either writes a row is lost (the file does not hold both rows).
C19_PrependRace ==
    BothDone =>
        /\ Serialized => NoRowLost
        /\ BothReadFirst => ~NoRowLost

\* the lost update: both callers read the same content, caller 1 wrote, then
\* caller 2 wrote: the file is the row of caller 2 over the old content, and
\* the row of caller 1 is gone
C19_Witness ==
    /\ BothDone
    /\ BothReadFirst
    /\ callers[1].row # callers[2].row
    /\ tops = <<callers[1].row, callers[2].row>>
    /\ content = RowLine(callers[2].row) \o ReadText(base)

====
